---- MODULE Spec2Model ----
(***************************************************************************)
(* ReQueue dashboard: the REST / WebSocket front of an external queue      *)
(* engine.  Two servers of the repository are modelled:                    *)
(*   "dashboard"  createDashboard()          src/src/index.js              *)
(*   "legacy"     the standalone API server  src/unnamed/part_000          *)
(* The engine (package `requeue`) is an environment: every call the        *)
(* servers make either rejects or resolves to the value the engine state   *)
(* determines.                                                             *)
(***************************************************************************)
EXTENDS Integers, Sequences, FiniteSets, TLC

VARIABLES
  server,      \* which server this behaviour is about
  websocket,   \* options.features.websocket (the legacy server has no flag)
  phase,       \* the listener and the process: "created" | "initialized" |
               \* "listening" | "closing" | "closed" | "exited"
  lifecycle,   \* initializeQueueManager's outcome, the promises of start() and
               \* stop(), and the engine client's close()
  qm,          \* engine handle: "null" | "present"
  relayWired,  \* setupRealtimeEvents registered its listeners on qm.eventEmitter
  engine,      \* the engine's queues, in listing order
  systemStats, \* what the engine's own getSystemStats() resolves to
  req,         \* the HTTP request being answered
  resp,        \* its response (status 0: none yet)
  calls,       \* engine calls issued for req, in order
  rt,          \* real-time state: sockets, connectedClients, rooms, inboxes
  rt2          \* the second run of a two-run comparison

vars == <<server, websocket, phase, lifecycle, qm, relayWired, engine, systemStats, req, resp, calls, rt, rt2>>

(***************************************************************************)
(* Bounds                                                                  *)
(***************************************************************************)
MaxItems == 1      \* length of the exhaustively enumerated queues
MaxClients == 2    \* real-time sessions
MaxEvents == 2     \* engine events emitted in one behaviour
MaxTime == 3       \* creation times, hence jobs, in the list routes
MaxStarts == 2     \* start() calls on one dashboard instance

(***************************************************************************)
(* Program constants                                                       *)
(***************************************************************************)
StatsItemsEnd == 1000     \* getQueueItems(queue.id, 0, 1000)
DefaultLimit == 100       \* const { limit = 100 } = req.query
ActivityItemsEnd == 10    \* getQueueItems(queue.id, 0, 10)
ActivityDefaultLimit == 20   \* const { limit = 20 } = req.query
ActivityItemCap == 10     \* the documented items per queue (spec.md section 4.3)
SpecItemCap == 1000       \* the documented truncation bound (spec.md section 3)

Servers == {"dashboard", "legacy"}
QueueIds == {"Q1", "Q2", "Q3"}
Statuses == {"pending", "processing", "completed", "failed", "timed_out", "cancelled"}

(***************************************************************************)
(* Engine state                                                            *)
(***************************************************************************)
Job(i, s, t) == [id |-> i, status |-> s, addedAt |-> t]

QueueOf(qid, items) ==
  [id |-> qid, name |-> qid, itemCount |-> Len(items), items |-> items]

RECURSIVE SeqsUpTo(_, _)
SeqsUpTo(S, n) ==
  IF n = 0 THEN {<<>>}
  ELSE LET shorter == SeqsUpTo(S, n - 1)
       IN  shorter \cup {Append(s, x) : s \in shorter, x \in S}

\* queues of at most MaxItems items, every status in every position
EnumeratedItems ==
  LET shapes == SeqsUpTo(Statuses, MaxItems)
  IN  {[i \in 1..Len(sh) |-> Job(i, sh[i], i)] : sh \in shapes}

\* one item of each of the six statuses
SixStatusItems ==
  <<Job(1, "pending", 1), Job(2, "processing", 2), Job(3, "completed", 3),
    Job(4, "failed", 4), Job(5, "timed_out", 5), Job(6, "cancelled", 6)>>

\* n items, all of one status
RunItems(n, s) == [i \in 1..n |-> Job(i, s, i)]

\* the queues the totals are sensitive to: empty, every status, over the cap
SpecialItems ==
  {<<>>, SixStatusItems,
   RunItems(SpecItemCap + 1, "pending"), RunItems(SpecItemCap + 2, "failed")}

StatsItems == EnumeratedItems \cup SpecialItems

\* zero, one or two queues; of two, one is enumerated and the other special
EnginesOver(contents, special) ==
  {<<>>}
    \cup {<<QueueOf("Q1", a)>> : a \in contents}
    \cup {<<QueueOf("Q1", a), QueueOf("Q2", b)>> : a \in contents, b \in special}
    \cup {<<QueueOf("Q1", a), QueueOf("Q2", b)>> : a \in special, b \in contents}

StatsEngines == EnginesOver(StatsItems, SpecialItems)

\* which engine calls reject, if they are made
FaultPlans ==
  [sys : BOOLEAN, list : BOOLEAN, stats : SUBSET QueueIds, items : SUBSET QueueIds,
   op : BOOLEAN]

\* the plans that differ on the queues the engine lists
ListedIds(eng) == {eng[i].id : i \in 1..Len(eng)}

PlansFor(eng) ==
  {f \in FaultPlans :
     f.stats \subseteq ListedIds(eng) /\ f.items \subseteq ListedIds(eng) /\ ~f.op}

NoFaults == [sys |-> FALSE, list |-> FALSE, stats |-> {}, items |-> {}, op |-> FALSE]

\* the engine's getQueueItems(id, start, end): the items at the 0-based
\* indices start..end, both ends included
getQueueItems(q, start, end) ==
  LET last == IF end + 1 < Len(q.items) THEN end + 1 ELSE Len(q.items)
  IN  IF start + 1 > last THEN <<>> ELSE SubSeq(q.items, start + 1, last)

\* an engine call as issued: the method, the queue, the index range or the
\* other argument
CallArg(fn, qid, start, end, arg) ==
  [fn |-> fn, id |-> qid, start |-> start, end |-> end, arg |-> arg,
   jobIds |-> <<>>, priority |-> -1, pauseScheduledJobs |-> FALSE]

\* a call that takes job ids or an options object
CallOpts(fn, qid, arg, jobIds, priority, flag) ==
  [CallArg(fn, qid, 0, 0, arg) EXCEPT
     !.jobIds = jobIds, !.priority = priority, !.pauseScheduledJobs = flag]

Call(fn, qid, start, end) == CallArg(fn, qid, start, end, "")

Last(q) == q[Len(q)]

(***************************************************************************)
(* Stats aggregation                                                       *)
(***************************************************************************)
ClassifyNoTimedOut(status) ==
  IF status = "processing" \/ status = "pending" THEN "active"
  ELSE IF status = "failed" THEN "failed"
  ELSE "none"

Classify(status) ==
  IF status = "processing" \/ status = "pending" THEN "active"
  ELSE IF status = "failed" \/ status = "timed_out" THEN "failed"
  ELSE "none"

CountBucket(jobs, b) ==
  Cardinality({i \in 1..Len(jobs) : Classify(jobs[i].status) = b})

Totals0 == [totalJobs |-> 0, activeJobs |-> 0, failedJobs |-> 0, calls |-> <<>>]

\* an iteration that asks for the items a second time when the first call
\* rejected
QueueStepRetries(acc, q, faults) ==
  LET c1 == Append(acc.calls, Call("getQueueStats", q.id, 0, 0))
      c2 == Append(c1, Call("getQueueItems", q.id, 0, StatsItemsEnd))
      c3 == Append(c2, Call("getQueueItems", q.id, 0, StatsItemsEnd))
      t  == acc.totalJobs + q.itemCount
      jobs == getQueueItems(q, 0, StatsItemsEnd)
  IN  IF q.id \in faults.stats THEN [acc EXCEPT !.calls = c1]
      ELSE IF q.id \in faults.items THEN [acc EXCEPT !.calls = c3, !.totalJobs = t]
      ELSE [totalJobs  |-> t,
            activeJobs |-> acc.activeJobs + CountBucket(jobs, "active"),
            failedJobs |-> acc.failedJobs + CountBucket(jobs, "failed"),
            calls      |-> c2]

\* an iteration with one try/catch around each call: a rejected
\* getQueueStats no longer skips the item fetch
QueueStepSeparateCatches(acc, q, faults) ==
  LET c1 == Append(acc.calls, Call("getQueueStats", q.id, 0, 0))
      c2 == Append(c1, Call("getQueueItems", q.id, 0, StatsItemsEnd))
      t  == IF q.id \in faults.stats THEN acc.totalJobs ELSE acc.totalJobs + q.itemCount
      jobs == IF q.id \in faults.items THEN <<>> ELSE getQueueItems(q, 0, StatsItemsEnd)
  IN  [totalJobs  |-> t,
       activeJobs |-> acc.activeJobs + CountBucket(jobs, "active"),
       failedJobs |-> acc.failedJobs + CountBucket(jobs, "failed"),
       calls      |-> c2]

\* one iteration of `for (const queue of queues.queues)` with its try/catch
QueueStep(acc, q, faults) ==
  LET c1 == Append(acc.calls, Call("getQueueStats", q.id, 0, 0))
      c2 == Append(c1, Call("getQueueItems", q.id, 0, StatsItemsEnd))
      t  == acc.totalJobs + q.itemCount
      jobs == getQueueItems(q, 0, StatsItemsEnd)
  IN  IF q.id \in faults.stats THEN [acc EXCEPT !.calls = c1]
      ELSE IF q.id \in faults.items THEN [acc EXCEPT !.calls = c2, !.totalJobs = t]
      ELSE [totalJobs  |-> t,
            activeJobs |-> acc.activeJobs + CountBucket(jobs, "active"),
            failedJobs |-> acc.failedJobs + CountBucket(jobs, "failed"),
            calls      |-> c2]

RECURSIVE QueueLoop(_, _, _, _)
QueueLoop(acc, queues, i, faults) ==
  IF i > Len(queues) THEN acc
  ELSE QueueLoop(QueueStep(acc, queues[i], faults), queues, i + 1, faults)

Snapshot(nq, tj, aj, fj, nc) ==
  [totalQueues |-> nq, totalJobs |-> tj, activeJobs |-> aj, failedJobs |-> fj,
   connectedClients |-> nc]

\* a JSON object is a function from its keys; this one has none
EmptyObject == [k \in {} |-> 0]

\* the engine's getSystemStats() result: its top-level fields other than
\* `system`, and the fields of its `system` (none if it has no `system`)
EngineStats(top, system) == [top |-> top, system |-> system]

NoSystemStats == EngineStats(EmptyObject, EmptyObject)

\* {...f, ...g}: the keys of both, g's value where both have the key
Spread(f, g) ==
  [k \in DOMAIN f \cup DOMAIN g |-> IF k \in DOMAIN g THEN g[k] ELSE f[k]]

\* a merge in which the engine's fields are spread last
MergeStatsEngineLast(sys, system) ==
  [top |-> sys.top, system |-> Spread(system, sys.system)]

\* {...systemStats, system: {...systemStats.system, totalJobs, activeJobs,
\*  failedJobs, totalQueues, connectedClients}}
MergeStats(sys, system) ==
  [top |-> sys.top, system |-> Spread(sys.system, system)]

\* getSystemStats() without the try/catch around one queue's calls
getSystemStatsNoInnerCatch(srv, handle, eng, sys, faults, nClients) ==
  LET sysCall  == Call("getSystemStats", "", 0, 0)
      listCall == Call("getAllQueues", "", 0, 0)
      acc == QueueLoop([Totals0 EXCEPT !.calls = <<sysCall, listCall>>], eng, 1, faults)
      bad == \E i \in 1..Len(eng) : eng[i].id \in faults.stats \cup faults.items
      system == Snapshot(Len(eng), acc.totalJobs, acc.activeJobs, acc.failedJobs, nClients)
  IN  [threw |-> handle = "null" \/ faults.sys \/ faults.list \/ bad,
       system |-> system,
       stats |-> MergeStats(sys, system),
       calls |-> acc.calls]

\* getSystemStats(): threw, or the object returned (`stats`) and the totals
\* computed here (`system`)
getSystemStats(srv, handle, eng, sys, faults, nClients) ==
  LET sysCall  == Call("getSystemStats", "", 0, 0)
      listCall == Call("getAllQueues", "", 0, 0)
      acc == QueueLoop([Totals0 EXCEPT !.calls = <<sysCall, listCall>>], eng, 1, faults)
      system == Snapshot(Len(eng), acc.totalJobs, acc.activeJobs, acc.failedJobs, nClients)
      zeroed == Snapshot(0, 0, 0, 0, nClients)
  IN  IF handle = "null" THEN
        [threw |-> (srv = "legacy"), system |-> zeroed,
         stats |-> [top |-> EmptyObject, system |-> zeroed], calls |-> <<>>]
      ELSE IF faults.sys THEN
        [threw |-> TRUE, system |-> Snapshot(0, 0, 0, 0, 0), stats |-> NoSystemStats,
         calls |-> <<sysCall>>]
      ELSE IF faults.list THEN
        [threw |-> TRUE, system |-> Snapshot(0, 0, 0, 0, 0), stats |-> NoSystemStats,
         calls |-> <<sysCall, listCall>>]
      ELSE
        [threw |-> FALSE, system |-> system, stats |-> MergeStats(sys, system),
         calls |-> acc.calls]

(***************************************************************************)
(* Requests and responses                                                  *)
(***************************************************************************)
Undefined == <<-1>>     \* a query parameter that is not given
NoField == -1           \* a key the JSON body does not carry

MissingField == "<undefined>"   \* a body field that is not sent
NoBody == [name |-> MissingField, queueId |-> MissingField]

Req(route, faults, limit, body) ==
  [route |-> route, faults |-> faults, limit |-> limit, body |-> body, queueId |-> "",
   offset |-> Undefined, jobId |-> "", data |-> MissingField, priority |-> NoField,
   clientsAtArrival |-> NoField]

NoReq == Req("", NoFaults, Undefined, NoBody)

Resp(status, kind) ==
  [status |-> status, kind |-> kind, system |-> Snapshot(0, 0, 0, 0, 0),
   stats |-> NoSystemStats, list |-> <<>>, total |-> NoField, fields |-> {}]

NoResp == Resp(0, "none")

Idle == resp.status = 0

(***************************************************************************)
(* Real-time state                                                         *)
(***************************************************************************)
Clients == 1..MaxClients

EventNames ==
  {"queueCreated", "queueDeleted", "queuePaused", "queueResumed",
   "jobAdded", "jobProcessed", "jobFailed", "jobCancelled"}

\* an engine event's payload names the queue it is about
EventData == {[queueId |-> q] : q \in {"Q1", "Q2"}}
NoData == [queueId |-> ""]

Msg(name, data, system) ==
  [name |-> name, data |-> data, system |-> system, stats |-> NoSystemStats]

RtInit ==
  [sock |-> [c \in Clients |-> "new"],
   connectedClients |-> {},
   rooms |-> [c \in Clients |-> {}],
   inbox |-> [c \in Clients |-> <<>>],
   emitted |-> <<>>,
   unheard |-> 0,
   asked |-> [c \in Clients |-> 0]]

Open(r) == {c \in Clients : r.sock[c] = "open"}

\* socket.emit(name, data): to this socket alone
socketEmit(r, c, m) == [r EXCEPT !.inbox[c] = Append(@, m)]

\* io.emit(name, data) restricted to the members of the room `queue:<id>`
ioEmitToRoom(r, m) ==
  [r EXCEPT !.inbox = [c \in Clients |->
     IF r.sock[c] = "open" /\ m.data.queueId \in r.rooms[c] THEN Append(@[c], m) ELSE @[c]]]

\* io.emit(name, data): to every socket connected now
ioEmit(r, m) ==
  [r EXCEPT !.inbox = [c \in Clients |->
     IF r.sock[c] = "open" THEN Append(@[c], m) ELSE @[c]]]

\* a listener that re-emits under the name of the listener above it
RelayMessageCopied(name, data) ==
  Msg(IF name = "jobCancelled" THEN "jobFailed" ELSE name, data, Snapshot(0, 0, 0, 0, 0))

\* qm.eventEmitter.on(name, (data) => { io.emit(name, data) })
RelayMessage(name, data) == Msg(name, data, Snapshot(0, 0, 0, 0, 0))

\* the engine emits `name`; the registered listener relays it
onEngineEvent(r, name, data) ==
  [ioEmit(r, RelayMessage(name, data)) EXCEPT
     !.emitted = Append(@, Msg(name, data, Snapshot(0, 0, 0, 0, 0)))]

\* the emitter calls every listener registered under `name`, one after the
\* other: with n sets of listeners registered, io.emit runs n times
RECURSIVE onEngineEventBy(_, _, _, _)
onEngineEventBy(r, name, data, n) ==
  IF n <= 1 THEN onEngineEvent(r, name, data)
  ELSE ioEmit(onEngineEventBy(r, name, data, n - 1), RelayMessage(name, data))

\* a server that registers its connection handler whatever the flag says
HandlersAlways(srv, ws) == TRUE

\* io.on('connection', ...) is registered: always on the legacy server, on
\* the dashboard under `if (features.websocket)`
HandlersOn(srv, ws) == srv = "legacy" \/ ws

\* a socket connects; the connection handler, if registered, runs
onConnection(r, handlers, c) ==
  LET opened == [r EXCEPT !.sock[c] = "open"]
  IN  IF ~handlers THEN opened
      ELSE socketEmit([opened EXCEPT !.connectedClients = @ \cup {c}], c,
                      Msg("connected", NoData, Snapshot(0, 0, 0, 0, 0)))

\* socket.on('subscribeQueue') / socket.on('unsubscribeQueue')
onSubscribeQueue(r, c, q) == [r EXCEPT !.rooms[c] = @ \cup {q}]
onUnsubscribeQueue(r, c, q) == [r EXCEPT !.rooms[c] = @ \ {q}]

\* a getStats handler that answers with io.emit
onGetStatsBroadcast(r, c, stats) ==
  ioEmit(r, IF stats.threw THEN Msg("error", NoData, Snapshot(0, 0, 0, 0, 0))
            ELSE [Msg("statsUpdate", NoData, stats.system) EXCEPT !.stats = stats.stats])

\* a getStats handler that enters the asking socket's id in connectedClients
\* once more, under a key of its own
onGetStatsRegisters(r, c, stats) ==
  [socketEmit(r, c, IF stats.threw THEN Msg("error", NoData, Snapshot(0, 0, 0, 0, 0))
                    ELSE [Msg("statsUpdate", NoData, stats.system) EXCEPT
                            !.stats = stats.stats])
     EXCEPT !.connectedClients = @ \cup {0}]

\* socket.on('getStats'): statsUpdate with the snapshot, or error
onGetStats(r, c, stats) ==
  socketEmit(r, c, IF stats.threw THEN Msg("error", NoData, Snapshot(0, 0, 0, 0, 0))
                   ELSE [Msg("statsUpdate", NoData, stats.system) EXCEPT
                           !.stats = stats.stats])

\* a disconnect handler that forgets to delete the session
onDisconnectKeep(r, handlers, c) ==
  [r EXCEPT !.sock[c] = "closed", !.rooms[c] = {}]

\* the socket closes (it leaves its rooms); socket.on('disconnect') runs
onDisconnect(r, handlers, c) ==
  LET closed == [r EXCEPT !.sock[c] = "closed", !.rooms[c] = {}]
  IN  IF ~handlers THEN closed
      ELSE [closed EXCEPT !.connectedClients = @ \ {c}]

(***************************************************************************)
(* Lifecycle                                                               *)
(***************************************************************************)
\* setupRealtimeEvents(): `if (!qm || !qm.eventEmitter) return`, then the
\* eight qm.eventEmitter.on(...) registrations
setupRealtimeEvents(handle, emitter) == handle = "present" /\ emitter

\* an initializeQueueManager() that lets the construction error escape
initializeQueueManagerRethrows(srv, ws, ok, emitter) ==
  IF ok THEN
    [qm |-> "present",
     relayWired |-> IF srv = "dashboard" /\ ~ws THEN FALSE
                    ELSE setupRealtimeEvents("present", emitter),
     exited |-> FALSE, rejected |-> FALSE]
  ELSE
    [qm |-> "null", relayWired |-> FALSE, exited |-> (srv = "legacy"),
     rejected |-> (srv = "dashboard")]

\* initializeQueueManager(): the state after the try/catch
initializeQueueManager(srv, ws, ok, emitter) ==
  IF ok THEN
    [qm |-> "present",
     relayWired |-> IF srv = "dashboard" /\ ~ws THEN FALSE
                    ELSE setupRealtimeEvents("present", emitter),
     exited |-> FALSE, rejected |-> FALSE]
  ELSE
    \* dashboard: 'Dashboard will run in demo mode'; legacy: process.exit(1)
    [qm |-> "null", relayWired |-> FALSE, exited |-> (srv = "legacy"),
     rejected |-> FALSE]

\* an engine whose clients all share one emitter: the listeners of an earlier
\* start() are still registered when the next start() adds its own
ListenersOnSharedEmitter(before, registered) ==
  IF registered THEN before + 1 ELSE before

\* `qm = await createQueueManager(...)` makes a new client with an emitter of
\* its own, and setupRealtimeEvents() registers on that one: the sets of
\* listeners on the emitter of the current client, whatever was registered
\* on the client before it
ListenersOn(before, registered) == IF registered THEN 1 ELSE 0

\* nothing started, nothing stopped. starts and stops count the calls;
\* listeners is the number of sets of listeners on the emitter of the
\* current engine client; orphans is the number of earlier engine clients
\* that were never closed and still carry their listeners
NoLifecycle ==
  [init |-> "none", start |-> "none", stop |-> "none", close |-> "none",
   starts |-> 0, stops |-> 0, listeners |-> 0, orphans |-> 0]

\* start() / startServer() up to the call of server.listen: the engine client
\* is awaited first.  startServer() returns once listen is called; start()
\* returns the promise the listen callback resolves.
Start ==
  /\ phase = "created"
  /\ lifecycle.start = "none"
  /\ Idle
  /\ \E ok \in BOOLEAN, emitter \in BOOLEAN :
       LET r == initializeQueueManager(server, websocket, ok, emitter)
       IN  /\ qm' = r.qm
           /\ relayWired' = r.relayWired
           /\ phase' = IF r.exited THEN "exited"
                       ELSE IF r.rejected THEN "created"
                       ELSE "initialized"
           /\ lifecycle' = [lifecycle EXCEPT
                !.init = IF ok THEN "ok" ELSE "failed",
                !.start = IF r.exited THEN "none"
                          ELSE IF r.rejected THEN "rejected"
                          ELSE IF server = "legacy" THEN "resolved"
                          ELSE "pending",
                !.starts = 1,
                !.listeners = ListenersOn(0, r.relayWired)]
  /\ UNCHANGED <<server, websocket, engine, systemStats, req, resp, calls, rt, rt2>>

\* the callback of server.listen (the port is free): the listener is bound,
\* and start() resolves
Listening ==
  /\ phase = "initialized"
  /\ phase' = "listening"
  /\ lifecycle' = [lifecycle EXCEPT !.start = "resolved"]
  /\ UNCHANGED <<server, websocket, qm, relayWired, engine, systemStats, req, resp, calls,
                 rt, rt2>>

\* stop(): server.close(callback); the listener accepts no new connection
Stop ==
  /\ server = "dashboard"
  /\ phase = "listening"
  /\ lifecycle.stop = "none"
  /\ phase' = "closing"
  /\ lifecycle' = [lifecycle EXCEPT !.stop = "pending", !.stops = @ + 1]
  /\ UNCHANGED <<server, websocket, qm, relayWired, engine, systemStats, req, resp, calls,
                 rt, rt2>>

\* a close callback that resolves without waiting for qm.close()
onServerClosedResolvesFirst(l, handle) ==
  IF handle = "null" THEN [l EXCEPT !.stop = "resolved"]
  ELSE [l EXCEPT !.close = "pending", !.stop = "resolved"]

\* the callback of server.close: `if (qm) qm.close().then(...) else resolve()`
onServerClosed(l, handle) ==
  IF handle = "null" THEN [l EXCEPT !.stop = "resolved"]
  ELSE [l EXCEPT !.close = "pending"]

\* the last connection has ended: the callback of server.close runs
ListenerClosed ==
  /\ phase = "closing"
  /\ \A c \in DOMAIN rt.sock : rt.sock[c] # "open"
  /\ phase' = "closed"
  /\ lifecycle' = onServerClosed(lifecycle, qm)
  /\ UNCHANGED <<server, websocket, qm, relayWired, engine, systemStats, req, resp, calls,
                 rt, rt2>>

\* qm.close() settles; `.then(() => resolve())` runs if it resolved
EngineClosed ==
  /\ lifecycle.close = "pending"
  /\ \E ok \in BOOLEAN :
       lifecycle' = IF ok THEN [lifecycle EXCEPT !.close = "closed", !.stop = "resolved"]
                    ELSE [lifecycle EXCEPT !.close = "failed"]
  /\ UNCHANGED <<server, websocket, phase, qm, relayWired, engine, systemStats, req, resp,
                 calls, rt, rt2>>

\* start() called again on a dashboard that was started before, lines
\* 411-426 once more: initializeQueueManager() makes a new engine client and
\* registers the listeners on it; the client before it is not closed by
\* start() and keeps its listeners. On a listener that is still bound
\* server.listen throws ERR_SERVER_ALREADY_LISTEN and start() rejects; on a
\* closed one it binds again.
Restart ==
  /\ server = "dashboard"
  /\ lifecycle.starts \in 1..(MaxStarts - 1)
  /\ phase \in {"listening", "closed"}
  /\ lifecycle.close # "pending"
  /\ Idle
  /\ \E ok \in BOOLEAN, emitter \in BOOLEAN :
       LET r == initializeQueueManager(server, websocket, ok, emitter)
           \* the client `qm` pointed to is left open, with its listeners
           left == IF ok /\ qm = "present" /\ relayWired /\ lifecycle.close # "closed"
                   THEN 1 ELSE 0
       IN  /\ qm' = IF ok THEN r.qm ELSE qm
           /\ relayWired' = IF ok THEN r.relayWired ELSE relayWired
           /\ phase' = IF phase = "listening" THEN "listening" ELSE "initialized"
           /\ lifecycle' = [lifecycle EXCEPT
                !.init = IF ok THEN "ok" ELSE "failed",
                !.start = IF phase = "listening" THEN "rejected" ELSE "pending",
                !.stop = IF phase = "listening" THEN @ ELSE "none",
                !.close = IF phase = "listening" THEN @ ELSE "none",
                !.starts = @ + 1,
                !.listeners = IF ok THEN ListenersOn(@, r.relayWired) ELSE @,
                !.orphans = @ + left]
  /\ UNCHANGED <<server, websocket, engine, systemStats, req, resp, calls, rt, rt2>>

\* the express app answers in every phase but after process.exit
Serving == phase # "exited" /\ Idle

\* the response has been sent
Reply ==
  /\ ~Idle
  /\ req' = NoReq
  /\ resp' = NoResp
  /\ calls' = <<>>
  /\ UNCHANGED <<server, websocket, phase, lifecycle, qm, relayWired, engine, systemStats, rt, rt2>>

(***************************************************************************)
(* GET /api/system/stats                                                   *)
(***************************************************************************)
\* the legacy route computes the totals inline and sends no connectedClients
StatsBody(srv, system) ==
  IF srv = "legacy" THEN [system EXCEPT !.connectedClients = NoField] ELSE system

\* the four totals of the legacy route, as the object spread over the engine's
InlineTotals(system) == [k \in DOMAIN system \ {"connectedClients"} |-> system[k]]

SystemStatsRoute(srv, handle, eng, sys, faults, nClients) ==
  LET r == getSystemStats(srv, handle, eng, sys, faults, nClients)
  IN  [resp  |-> IF r.threw THEN Resp(500, "error")
                 ELSE [Resp(200, "snapshot") EXCEPT
                         !.system = StatsBody(srv, r.system),
                         !.stats = IF srv = "legacy"
                                   THEN MergeStats(sys, InlineTotals(r.system))
                                   ELSE r.stats],
       calls |-> r.calls]

GetSystemStats ==
  /\ Serving
  /\ \E f \in PlansFor(engine) :
       LET r == SystemStatsRoute(server, qm, engine, systemStats, f,
                                 Cardinality(rt.connectedClients))
       IN  /\ req' = Req("GET /api/system/stats", f, Undefined, NoBody)
           /\ resp' = r.resp
           /\ calls' = r.calls
  /\ UNCHANGED <<server, websocket, phase, lifecycle, qm, relayWired, engine, systemStats,
                 rt, rt2>>

\* a snapshot that reports the size the client set had when the request
\* arrived
ClientsReadAtArrival(atArrival, atAssembly) == atArrival

\* `connectedClients: connectedClients.size` is evaluated in the return
\* statement, after the last await
ClientsRead(atArrival, atAssembly) == atAssembly

\* a stats request whose aggregation is suspended at an engine call
InFlight == req.route = "GET /api/system/stats" /\ Idle

\* GET /api/system/stats arrives at the dashboard: without an engine client
\* getSystemStats() returns at once; with one it issues qm.getSystemStats()
\* and suspends
StatsRequested ==
  /\ Serving
  /\ req = NoReq
  /\ server = "dashboard"
  /\ \E f \in PlansFor(engine) :
       LET n == Cardinality(rt.connectedClients)
           r == SystemStatsRoute(server, qm, engine, systemStats, f, n)
       IN  /\ req' = [Req("GET /api/system/stats", f, Undefined, NoBody) EXCEPT
                        !.clientsAtArrival = n]
           /\ resp' = IF qm = "null" THEN r.resp ELSE NoResp
           /\ calls' = IF qm = "null" THEN r.calls ELSE <<r.calls[1]>>
  /\ UNCHANGED <<server, websocket, phase, lifecycle, qm, relayWired, engine, systemStats,
                 rt, rt2>>

\* the engine call the aggregation is suspended at settles: the aggregation
\* issues its next call, or, after the last one, assembles what it returns
\* and the route answers
StatsCallSettles ==
  /\ InFlight
  /\ phase # "exited"
  /\ LET n == ClientsRead(req.clientsAtArrival, Cardinality(rt.connectedClients))
         r == SystemStatsRoute(server, qm, engine, systemStats, req.faults, n)
     IN  IF Len(calls) < Len(r.calls)
         THEN /\ calls' = SubSeq(r.calls, 1, Len(calls) + 1)
              /\ resp' = resp
         ELSE /\ calls' = calls
              /\ resp' = r.resp
  /\ UNCHANGED <<server, websocket, phase, lifecycle, qm, relayWired, engine, systemStats,
                 req, rt, rt2>>

(***************************************************************************)
(* The stats aggregation over every engine state and fault plan            *)
(***************************************************************************)
InitServer ==
  /\ server \in Servers
  /\ websocket \in (IF server = "legacy" THEN {TRUE} ELSE BOOLEAN)
  /\ phase = "created"
  /\ lifecycle = NoLifecycle
  /\ qm = "null"
  /\ relayWired = FALSE
  /\ req = NoReq
  /\ resp = NoResp
  /\ calls = <<>>
  /\ rt = RtInit
  /\ rt2 = RtInit

InitCommon == InitServer /\ systemStats = NoSystemStats

InitStats == InitCommon /\ websocket /\ engine \in StatsEngines

NextStats == Start \/ Listening \/ GetSystemStats \/ Reply

SpecStats == InitStats /\ [][NextStats]_vars

(***************************************************************************)
(* The other routes                                                        *)
(***************************************************************************)
Out(resp_, calls_) == [resp |-> resp_, calls |-> calls_]

\* a handler that makes its call once more when it was rejected
UnguardedRetry(handle, faults, call, okResp, errStatus) ==
  IF handle = "null" THEN [resp |-> Resp(errStatus, "error"), calls |-> <<>>]
  ELSE IF faults.op THEN [resp |-> Resp(errStatus, "error"), calls |-> <<call, call>>]
  ELSE [resp |-> okResp, calls |-> <<call>>]

\* a legacy handler: one engine call in try/catch, no check of qm (with qm
\* null the call is a TypeError, caught like a rejection)
Unguarded(handle, faults, call, okResp, errStatus) ==
  IF handle = "null" THEN Out(Resp(errStatus, "error"), <<>>)
  ELSE IF faults.op THEN Out(Resp(errStatus, "error"), <<call>>)
  ELSE Out(okResp, <<call>>)

\* a mutation handler of the dashboard: `if (!qm) return res.status(503)`
Guarded503(handle, faults, call, okResp, errStatus) ==
  IF handle = "null" THEN Out(Resp(503, "error"), <<>>)
  ELSE Unguarded(handle, faults, call, okResp, errStatus)

\* GET /api/health
HealthRoute(srv, handle, faults) ==
  IF srv = "dashboard" /\ handle = "null" THEN Out(Resp(200, "demo"), <<>>)
  ELSE Unguarded(handle, faults, Call("healthCheck", "", 0, 0), Resp(200, "health"), 500)

\* GET /api/queues: the engine's listing {queues, total} as it is
QueuesRoute(srv, handle, eng, faults) ==
  LET listCall == Call("getAllQueues", "", 0, 0)
      ids == [i \in 1..Len(eng) |-> eng[i].id]
  IN  IF handle = "null" THEN
        IF srv = "dashboard"
        THEN Out([Resp(200, "queues") EXCEPT !.total = 0], <<>>)
        ELSE Out(Resp(500, "error"), <<>>)
      ELSE IF faults.list THEN Out(Resp(500, "error"), <<listCall>>)
      ELSE Out([Resp(200, "queues") EXCEPT !.list = ids, !.total = Len(eng)], <<listCall>>)

\* body('name').notEmpty(), body('queueId').notEmpty(): the fields in error
notEmpty(v) == v # MissingField /\ v # ""

ValidationErrors(body) ==
  {f \in {"name", "queueId"} : ~notEmpty(IF f = "name" THEN body.name ELSE body.queueId)}

\* POST /api/queues
CreateQueueRoute(srv, handle, faults, body) ==
  LET call == CallArg("createQueue", body.queueId, 0, 0, body.name)
  IN  IF srv = "legacy" THEN Unguarded(handle, faults, call, Resp(200, "queue"), 400)
      ELSE IF ValidationErrors(body) # {}
        THEN Out([Resp(400, "validation") EXCEPT !.fields = ValidationErrors(body)], <<>>)
      ELSE Guarded503(handle, faults, call, Resp(200, "queue"), 400)

\* DELETE /api/queues/:queueId
DeleteQueueRoute(srv, handle, faults, qid) ==
  LET call == Call("deleteQueue", qid, 0, 0)
  IN  IF srv = "legacy" THEN Unguarded(handle, faults, call, Resp(200, "success"), 400)
      ELSE Guarded503(handle, faults, call, Resp(200, "success"), 400)

\* the routes only the legacy server defines; on the dashboard no route
\* matches and express answers 404
LegacyOnly(srv, handle, faults, call, okResp, errStatus) ==
  IF srv = "legacy" THEN Unguarded(handle, faults, call, okResp, errStatus)
  ELSE Out(Resp(404, "notFound"), <<>>)

\* POST /api/queues/:queueId/pause
PauseRoute(srv, handle, faults, qid) ==
  LegacyOnly(srv, handle, faults,
             CallOpts("pauseQueue", qid, "Dashboard pause", <<>>, NoField, TRUE),
             Resp(200, "success"), 400)

\* POST /api/queues/:queueId/resume
ResumeRoute(srv, handle, faults, qid) ==
  LegacyOnly(srv, handle, faults, Call("resumeQueue", qid, 0, 0), Resp(200, "success"), 400)

\* priority || 0
OrZero(priority) == IF priority = NoField \/ priority = 0 THEN 0 ELSE priority

\* POST /api/queues/:queueId/jobs
AddJobRoute(srv, handle, faults, qid, data, priority) ==
  LegacyOnly(srv, handle, faults,
             CallOpts("addToQueue", qid, data, <<>>, OrZero(priority), FALSE),
             Resp(200, "job"), 400)

\* POST /api/queues/:queueId/jobs/:jobId/cancel
CancelJobRoute(srv, handle, faults, qid, jobId) ==
  LegacyOnly(srv, handle, faults, CallOpts("cancelJobs", qid, "", <<jobId>>, NoField, FALSE),
             Resp(200, "success"), 400)

(***************************************************************************)
(* GET /api/jobs and GET /api/activity/recent                              *)
(***************************************************************************)
\* parseInt of a string of decimal digits
RECURSIVE parseInt(_)
parseInt(ds) == IF ds = <<>> THEN 0 ELSE 10 * parseInt(SubSeq(ds, 1, Len(ds) - 1)) + Last(ds)

\* const { limit = 100 } = req.query; parseInt(limit)
LimitOf(limit) == IF limit = Undefined THEN DefaultLimit ELSE parseInt(limit)

\* const { limit = 20 } = req.query; parseInt(limit)
ActivityLimitOf(limit) == IF limit = Undefined THEN ActivityDefaultLimit ELSE parseInt(limit)

\* Array.prototype.slice(0, n), n >= 0
Slice(xs, n) == SubSeq(xs, 1, IF Len(xs) < n THEN Len(xs) ELSE n)

\* x put behind every element that is not older: the sort is stable
RECURSIVE InsertDesc(_, _)
InsertDesc(x, sorted) ==
  IF sorted = <<>> THEN <<x>>
  ELSE IF Head(sorted).at >= x.at THEN <<Head(sorted)>> \o InsertDesc(x, Tail(sorted))
  ELSE <<x>> \o sorted

\* xs.sort((a, b) => new Date(b.at) - new Date(a.at)) on the keyed entries
RECURSIVE SortDesc(_)
SortDesc(xs) ==
  IF xs = <<>> THEN <<>>
  ELSE InsertDesc(Last(xs), SortDesc(SubSeq(xs, 1, Len(xs) - 1)))

\* allJobs.push({...job, queueId: queue.id, queueName: queue.name})
Annotated(job, q) ==
  [id |-> job.id, status |-> job.status, addedAt |-> job.addedAt, at |-> job.addedAt,
   queueId |-> q.id, queueName |-> q.name]

\* activity.push({type: 'Job', description, status, timestamp, queueId})
Activity(job, q) ==
  [type |-> "Job", description |-> <<"Job", job.id, "in", q.name>>,
   status |-> job.status, timestamp |-> job.addedAt, at |-> job.addedAt,
   queueId |-> q.id]

\* the loop over the listed queues: the entries pushed and the calls made
RECURSIVE Collect(_, _, _, _, _)
Collect(acc, queues, i, faults, kind) ==
  IF i > Len(queues) THEN acc
  ELSE
    LET q == queues[i]
        end == IF kind = "jobs" THEN acc.end ELSE ActivityItemsEnd
        jobs == getQueueItems(q, 0, end)
        made == Append(acc.calls, Call("getQueueItems", q.id, 0, end))
        pushed == [k \in 1..Len(jobs) |->
                     IF kind = "jobs" THEN Annotated(jobs[k], q) ELSE Activity(jobs[k], q)]
    IN  Collect(IF q.id \in faults.items THEN [acc EXCEPT !.calls = made]
                ELSE [acc EXCEPT !.calls = made, !.all = @ \o pushed],
                queues, i + 1, faults, kind)

\* the two handlers differ in the range they ask for and in what they push
ListRoute(srv, handle, eng, faults, limit, kind) ==
  LET listCall == Call("getAllQueues", "", 0, 0)
      n == IF kind = "jobs" THEN LimitOf(limit) ELSE ActivityLimitOf(limit)
      acc == Collect([all |-> <<>>, calls |-> <<listCall>>, end |-> n - 1],
                     eng, 1, faults, kind)
  IN  IF handle = "null" THEN
        IF srv = "dashboard" THEN Out([Resp(200, "list") EXCEPT !.list = <<>>], <<>>)
        ELSE Out(Resp(500, "error"), <<>>)
      ELSE IF faults.list THEN Out(Resp(500, "error"), <<listCall>>)
      ELSE Out([Resp(200, "list") EXCEPT !.list = Slice(SortDesc(acc.all), n)], acc.calls)

\* Number.prototype.toString: the decimal digits of n >= 0
RECURSIVE Digits(_)
Digits(n) == IF n < 10 THEN <<n>> ELSE Append(Digits(n \div 10), n % 10)

\* const { limit = 100, offset = 0 } = req.query: the first index asked for.
\* A given offset is passed on as the string it is; the engine reads it as
\* the number it spells.
OffsetOf(offset) == IF offset = Undefined THEN 0 ELSE parseInt(offset)

\* offset + parseInt(limit) - 1: `+` adds to the default 0 and concatenates
\* to an offset string; `-` converts the result to a number
EndOf(offset, limit) ==
  (IF offset = Undefined THEN 0 + LimitOf(limit)
   ELSE parseInt(offset \o Digits(LimitOf(limit)))) - 1

\* the queue the engine keeps under this id
QueueById(eng, qid) == eng[CHOOSE i \in 1..Len(eng) : eng[i].id = qid]

\* GET /api/queues/:queueId/jobs
QueueJobsRoute(srv, handle, eng, faults, qid, offset, limit) ==
  LET start == OffsetOf(offset)
      end == EndOf(offset, limit)
      jobs == getQueueItems(QueueById(eng, qid), start, end)
  IN  LegacyOnly(srv, handle, faults, Call("getQueueItems", qid, start, end),
                 [Resp(200, "list") EXCEPT !.list = jobs], 500)

\* GET /api/jobs
JobsRoute(srv, handle, eng, faults, limit) ==
  ListRoute(srv, handle, eng, faults, limit, "jobs")

\* an activity handler without the try/catch around one queue's fetch
ActivityRouteNoCatch(srv, handle, eng, faults, limit) ==
  IF handle = "present" /\ ~faults.list /\ faults.items \cap ListedIds(eng) # {}
  THEN Out(Resp(500, "error"), <<Call("getAllQueues", "", 0, 0)>>)
  ELSE ListRoute(srv, handle, eng, faults, limit, "activity")

\* GET /api/activity/recent
ActivityRoute(srv, handle, eng, faults, limit) ==
  ListRoute(srv, handle, eng, faults, limit, "activity")

(***************************************************************************)
(* Request handling                                                        *)
(***************************************************************************)
HttpFrame == UNCHANGED <<server, websocket, phase, lifecycle, qm, relayWired, engine, systemStats, rt, rt2>>

Answer(r, out) == req' = r /\ resp' = out.resp /\ calls' = out.calls /\ HttpFrame

OpFaults == {NoFaults, [NoFaults EXCEPT !.op = TRUE]}
ListFaults(eng) == {f \in PlansFor(eng) : ~f.sys /\ f.stats = {}}
BodyValues == {MissingField, "", "orders"}
Bodies == [name : BodyValues, queueId : BodyValues]
LimitInputs == {Undefined, <<1>>, <<2>>}
OffsetInputs == {Undefined, <<0>>, <<1>>, <<2>>}
PageLimits == {Undefined, <<1>>, <<2>>, <<1, 0>>}

GetHealth ==
  /\ Serving
  /\ \E f \in OpFaults :
       Answer(Req("GET /api/health", f, Undefined, NoBody), HealthRoute(server, qm, f))

GetQueues ==
  /\ Serving
  /\ \E f \in {NoFaults, [NoFaults EXCEPT !.list = TRUE]} :
       Answer(Req("GET /api/queues", f, Undefined, NoBody),
              QueuesRoute(server, qm, engine, f))

PostQueues ==
  /\ Serving
  /\ \E f \in OpFaults, b \in Bodies :
       Answer(Req("POST /api/queues", f, Undefined, b),
              CreateQueueRoute(server, qm, f, b))

\* the five routes that take the queue from the path
PathRoutes ==
  {"DELETE /api/queues/:queueId", "POST /api/queues/:queueId/pause",
   "POST /api/queues/:queueId/resume", "POST /api/queues/:queueId/jobs",
   "POST /api/queues/:queueId/jobs/:jobId/cancel"}

PathRoute(r, srv, handle) ==
  CASE r.route = "DELETE /api/queues/:queueId" ->
         DeleteQueueRoute(srv, handle, r.faults, r.queueId)
    [] r.route = "POST /api/queues/:queueId/pause" ->
         PauseRoute(srv, handle, r.faults, r.queueId)
    [] r.route = "POST /api/queues/:queueId/resume" ->
         ResumeRoute(srv, handle, r.faults, r.queueId)
    [] r.route = "POST /api/queues/:queueId/jobs" ->
         AddJobRoute(srv, handle, r.faults, r.queueId, r.data, r.priority)
    [] OTHER -> CancelJobRoute(srv, handle, r.faults, r.queueId, r.jobId)

\* what the request carries besides the queue: a job to add, a job to cancel
Priorities(route) ==
  IF route = "POST /api/queues/:queueId/jobs" THEN {NoField, 0, 5} ELSE {NoField}
JobData(route) ==
  IF route = "POST /api/queues/:queueId/jobs" THEN {"payload"} ELSE {MissingField}
JobIds(route) ==
  IF route = "POST /api/queues/:queueId/jobs/:jobId/cancel" THEN {"J1", "J2"} ELSE {""}

PathRequest(route) ==
  /\ Serving
  /\ \E f \in OpFaults, qid \in {"Q1", "Q2"}, j \in JobIds(route), d \in JobData(route),
        pr \in Priorities(route) :
       LET r == [Req(route, f, Undefined, NoBody) EXCEPT
                   !.queueId = qid, !.jobId = j, !.data = d, !.priority = pr]
       IN  Answer(r, PathRoute(r, server, qm))

GetJobs ==
  /\ Serving
  /\ \E f \in ListFaults(engine), l \in LimitInputs :
       Answer(Req("GET /api/jobs", f, l, NoBody), JobsRoute(server, qm, engine, f, l))

GetActivity ==
  /\ Serving
  /\ \E f \in ListFaults(engine), l \in LimitInputs :
       Answer(Req("GET /api/activity/recent", f, l, NoBody),
              ActivityRoute(server, qm, engine, f, l))

GetQueueJobs ==
  /\ Serving
  /\ \E f \in OpFaults, qid \in ListedIds(engine), o \in OffsetInputs, l \in PageLimits :
       Answer([Req("GET /api/queues/:queueId/jobs", f, l, NoBody) EXCEPT
                 !.queueId = qid, !.offset = o],
              QueueJobsRoute(server, qm, engine, f, qid, o, l))

\* every route, over one engine state
ApiEngines == {<<QueueOf("Q1", SixStatusItems), QueueOf("Q2", <<>>)>>}

InitApi == InitCommon /\ websocket /\ engine \in ApiEngines

NextApi ==
  \/ Start
  \/ Listening
  \/ GetHealth
  \/ GetSystemStats
  \/ GetQueues
  \/ PostQueues
  \/ \E route \in PathRoutes : PathRequest(route)
  \/ GetJobs
  \/ GetActivity
  \/ GetQueueJobs
  \/ Reply

SpecApi == InitApi /\ [][NextApi]_vars

\* the list routes, over queues of jobs with distinct creation times
Times == 1..MaxTime

NoRepeat(ts) == \A i, j \in 1..Len(ts) : i # j => ts[i] # ts[j]
TimeSeqs == {ts \in SeqsUpTo(Times, MaxTime) : NoRepeat(ts)}
Range(ts) == {ts[i] : i \in 1..Len(ts)}
JobsAt(ts) == [i \in 1..Len(ts) |-> Job(ts[i], "pending", ts[i])]

JobsEngines ==
  {<<QueueOf("Q1", JobsAt(a)), QueueOf("Q2", JobsAt(b)), QueueOf("Q3", JobsAt(c))>> :
     <<a, b, c>> \in {t \in TimeSeqs \X TimeSeqs \X TimeSeqs :
                        /\ Range(t[1]) \cap Range(t[2]) = {}
                        /\ Range(t[1]) \cap Range(t[3]) = {}
                        /\ Range(t[2]) \cap Range(t[3]) = {}}}

InitJobs == InitCommon /\ websocket /\ engine \in JobsEngines

NextJobs == Start \/ Listening \/ GetJobs \/ GetActivity \/ Reply

SpecJobs == InitJobs /\ [][NextJobs]_vars

\* the activity route, also over a queue longer than the items it asks for
LongItems == RunItems(ActivityItemsEnd + 2, "pending")

ActivityEngines ==
  JobsEngines \cup {<<QueueOf("Q1", LongItems)>>,
                    <<QueueOf("Q1", JobsAt(<<1>>)), QueueOf("Q2", LongItems)>>}

InitActivity == InitCommon /\ websocket /\ engine \in ActivityEngines

NextActivity == Start \/ Listening \/ GetActivity \/ Reply

SpecActivity == InitActivity /\ [][NextActivity]_vars

(***************************************************************************)
(* Real-time actions                                                       *)
(***************************************************************************)
Connect(c) ==
  /\ phase = "listening"
  /\ rt.sock[c] = "new"
  /\ rt' = onConnection(rt, HandlersOn(server, websocket), c)
  /\ UNCHANGED <<server, websocket, phase, lifecycle, qm, relayWired, engine, systemStats, req, resp, calls, rt2>>

Disconnect(c) ==
  /\ rt.sock[c] = "open"
  /\ rt' = onDisconnect(rt, HandlersOn(server, websocket), c)
  /\ UNCHANGED <<server, websocket, phase, lifecycle, qm, relayWired, engine, systemStats, req, resp, calls, rt2>>

SubscribeQueue(c, q) ==
  /\ rt.sock[c] = "open"
  /\ q \notin rt.rooms[c]
  /\ rt' = IF HandlersOn(server, websocket) THEN onSubscribeQueue(rt, c, q) ELSE rt
  /\ UNCHANGED <<server, websocket, phase, lifecycle, qm, relayWired, engine, systemStats,
                 req, resp, calls, rt2>>

UnsubscribeQueue(c, q) ==
  /\ rt.sock[c] = "open"
  /\ HandlersOn(server, websocket)
  /\ q \in rt.rooms[c]
  /\ rt' = onUnsubscribeQueue(rt, c, q)
  /\ UNCHANGED <<server, websocket, phase, lifecycle, qm, relayWired, engine, systemStats, req, resp, calls, rt2>>

\* the faults a getStats message is answered under
SocketFaults == {NoFaults, [NoFaults EXCEPT !.list = TRUE]}

\* the session has had a getStats message answered
Answered(r, c) ==
  \E i \in 1..Len(r.inbox[c]) : r.inbox[c][i].name \in {"statsUpdate", "error"}

\* a session sends getStats once (rt.asked counts the messages sent); with no
\* handler registered the message is dropped
GetStats(c) ==
  /\ rt.sock[c] = "open"
  /\ rt.asked[c] = 0
  /\ \E f \in SocketFaults :
       LET stats == getSystemStats(server, qm, engine, systemStats, f,
                                   Cardinality(rt.connectedClients))
           handled == IF HandlersOn(server, websocket) THEN onGetStats(rt, c, stats) ELSE rt
       IN  rt' = [handled EXCEPT !.asked[c] = 1]
  /\ UNCHANGED <<server, websocket, phase, lifecycle, qm, relayWired, engine, systemStats,
                 req, resp, calls, rt2>>

\* the engine emits an event: the relay's listeners run if they are
\* registered; an event no listener hears leaves the server as it is
EngineEvent(name, data) ==
  /\ qm = "present"
  /\ Len(rt.emitted) + rt.unheard < MaxEvents
  /\ rt' = IF relayWired THEN onEngineEventBy(rt, name, data, lifecycle.listeners)
           ELSE [rt EXCEPT !.unheard = @ + 1]
  /\ UNCHANGED <<server, websocket, phase, lifecycle, qm, relayWired, engine, systemStats,
                 req, resp, calls, rt2>>

\* an engine client that an earlier start() made and nothing closed emits an
\* event: its own set of listeners relays it
OrphanEvent(name, data) ==
  /\ lifecycle.orphans > 0
  /\ Len(rt.emitted) + rt.unheard < MaxEvents
  /\ rt' = onEngineEvent(rt, name, data)
  /\ UNCHANGED <<server, websocket, phase, lifecycle, qm, relayWired, engine, systemStats,
                 req, resp, calls, rt2>>

RtEngines == {<<QueueOf("Q1", SixStatusItems)>>}

Init == InitCommon /\ engine \in RtEngines

Next ==
  \/ Start
  \/ Listening
  \/ \E c \in Clients : Connect(c)
  \/ \E c \in Clients : Disconnect(c)
  \/ \E c \in Clients, q \in {"Q1", "Q2"} : SubscribeQueue(c, q)
  \/ \E c \in Clients, q \in {"Q1", "Q2"} : UnsubscribeQueue(c, q)
  \/ \E c \in Clients : GetStats(c)

Spec == Init /\ [][Next]_vars

\* one queue's jobs by offset and limit, over a queue longer than a page
QueueJobsEngines == {<<QueueOf("Q1", LongItems), QueueOf("Q2", SixStatusItems)>>}

InitQueueJobs == InitCommon /\ websocket /\ engine \in QueueJobsEngines

NextQueueJobs == Start \/ Listening \/ GetQueueJobs \/ Reply

SpecQueueJobs == InitQueueJobs /\ [][NextQueueJobs]_vars

\* a dashboard created with features.websocket false
InitOff == Init /\ server = "dashboard" /\ ~websocket

NextOff ==
  \/ Start
  \/ Listening
  \/ \E c \in Clients : Connect(c)
  \/ \E c \in Clients : Disconnect(c)
  \/ \E c \in Clients : SubscribeQueue(c, "Q1")
  \/ \E c \in Clients : GetStats(c)
  \/ \E n \in EventNames, d \in EventData : EngineEvent(n, d)
  \/ Stop
  \/ ListenerClosed
  \/ EngineClosed

SpecOff == InitOff /\ [][NextOff]_vars

\* startup and shutdown, with sessions connecting and leaving
NextLife ==
  \/ Start
  \/ Listening
  \/ Stop
  \/ ListenerClosed
  \/ EngineClosed
  \/ \E c \in Clients : Connect(c)
  \/ \E c \in Clients : Disconnect(c)
  \/ \E c \in Clients : SubscribeQueue(c, "Q1")

SpecLife == Init /\ [][NextLife]_vars

\* server.listen calls back once the port is bound
SpecLifeFair == SpecLife /\ WF_vars(Listening)

\* the listener finishes closing once its connections have ended, and the
\* engine client's close() settles, one way or the other
SpecStopFair ==
  SpecLife /\ WF_vars(Listening) /\ WF_vars(ListenerClosed) /\ WF_vars(EngineClosed)

\* the stats answers, over what the engine itself reports: nothing, fields of
\* its own, fields named like the totals computed here
ReportedStats ==
  {NoSystemStats,
   EngineStats([uptime |-> 7], [memory |-> 5]),
   EngineStats(EmptyObject, [connectedClients |-> 95]),
   EngineStats([uptime |-> 7, totalJobs |-> 99],
               [memory |-> 5, totalJobs |-> 99, activeJobs |-> 98, failedJobs |-> 97,
                totalQueues |-> 96, connectedClients |-> 95])}

InitMerge ==
  InitServer /\ websocket /\ engine \in ApiEngines /\ systemStats \in ReportedStats

\* the sessions that connect while the stats are asked for
MergeClients == {1, 2}

NextMerge ==
  \/ Start
  \/ Listening
  \/ GetSystemStats
  \/ Reply
  \/ \E c \in MergeClients : Connect(c)
  \/ \E c \in MergeClients : Disconnect(c)
  \/ \E c \in MergeClients : GetStats(c)

SpecMerge == InitMerge /\ [][NextMerge]_vars

(***************************************************************************)
(* Connects and disconnects while a stats request is suspended             *)
(***************************************************************************)
InitInterleaved ==
  InitCommon /\ server = "dashboard" /\ websocket /\ engine \in ApiEngines

NextInterleaved ==
  \/ Start
  \/ Listening
  \/ StatsRequested
  \/ StatsCallSettles
  \/ Reply
  \/ \E c \in MergeClients : Connect(c)
  \/ \E c \in MergeClients : Disconnect(c)

SpecInterleaved == InitInterleaved /\ [][NextInterleaved]_vars

(***************************************************************************)
(* The relay: engine events against connects and disconnects               *)
(***************************************************************************)
RelayClients == {1, 2}

NextRelay ==
  \/ Start
  \/ Listening
  \/ \E c \in RelayClients : Connect(c)
  \/ \E c \in RelayClients : Disconnect(c)
  \/ \E n \in EventNames, d \in EventData : EngineEvent(n, d)

SpecRelay == Init /\ [][NextRelay]_vars

(***************************************************************************)
(* The relay across repeated start() and stop() calls                      *)
(***************************************************************************)
RestartEvents == {"queueCreated", "jobFailed"}
RestartData == [queueId |-> "Q1"]

InitRestart == Init /\ server = "dashboard"

NextRestart ==
  \/ Start
  \/ Listening
  \/ Restart
  \/ Stop
  \/ ListenerClosed
  \/ EngineClosed
  \/ \E c \in RelayClients : Connect(c)
  \/ \E c \in RelayClients : Disconnect(c)
  \/ \E n \in RestartEvents : EngineEvent(n, RestartData)
  \/ \E n \in RestartEvents : OrphanEvent(n, RestartData)

SpecRestart == InitRestart /\ [][NextRestart]_vars

PairEventNames == {"queuePaused", "jobAdded"}

PairFrame == UNCHANGED <<server, websocket, phase, lifecycle, qm, relayWired, engine, systemStats, req, resp, calls>>

PairConnect(c) ==
  /\ phase = "listening"
  /\ rt.sock[c] = "new" /\ rt2.sock[c] = "new"
  /\ rt' = onConnection(rt, HandlersOn(server, websocket), c)
  /\ rt2' = onConnection(rt2, HandlersOn(server, websocket), c)
  /\ PairFrame

PairDisconnect(c) ==
  /\ rt.sock[c] = "open" /\ rt2.sock[c] = "open"
  /\ rt' = onDisconnect(rt, HandlersOn(server, websocket), c)
  /\ rt2' = onDisconnect(rt2, HandlersOn(server, websocket), c)
  /\ PairFrame

PairEvent(name, data) ==
  /\ relayWired
  /\ Len(rt.emitted) < MaxEvents /\ Len(rt2.emitted) < MaxEvents
  /\ rt' = onEngineEvent(rt, name, data)
  /\ rt2' = onEngineEvent(rt2, name, data)
  /\ PairFrame

\* a subscribeQueue or unsubscribeQueue message in the first run only
FirstSubscribes(c, q) ==
  /\ rt.sock[c] = "open"
  /\ HandlersOn(server, websocket)
  /\ rt' = IF q \in rt.rooms[c] THEN onUnsubscribeQueue(rt, c, q)
           ELSE onSubscribeQueue(rt, c, q)
  /\ UNCHANGED rt2
  /\ PairFrame

\* and in the second run only
SecondSubscribes(c, q) ==
  /\ rt2.sock[c] = "open"
  /\ HandlersOn(server, websocket)
  /\ rt2' = IF q \in rt2.rooms[c] THEN onUnsubscribeQueue(rt2, c, q)
            ELSE onSubscribeQueue(rt2, c, q)
  /\ UNCHANGED rt
  /\ PairFrame

NextPair ==
  \/ Start
  \/ Listening
  \/ \E c \in RelayClients : PairConnect(c)
  \/ \E c \in RelayClients : PairDisconnect(c)
  \/ \E n \in PairEventNames, d \in EventData : PairEvent(n, d)
  \/ \E c \in RelayClients : FirstSubscribes(c, "Q1")
  \/ \E c \in RelayClients : SecondSubscribes(c, "Q1")

SpecPair == Init /\ [][NextPair]_vars

(***************************************************************************)
(* Properties of the stats aggregation                                     *)
(***************************************************************************)
ActiveStatuses == {"pending", "processing"}
FailedStatuses == {"failed", "timed_out"}

RECURSIVE SumSeq(_)
SumSeq(ns) == IF ns = <<>> THEN 0 ELSE Head(ns) + SumSeq(Tail(ns))

NumWithStatus(jobs, S) == Cardinality({i \in 1..Len(jobs) : jobs[i].status \in S})

\* a snapshot was computed from the engine
StatsAnswered ==
  /\ req.route = "GET /api/system/stats"
  /\ qm = "present"
  /\ resp.status = 200

\* the queues whose items were asked for and came back
ItemsAsked(q) == \E i \in 1..Len(calls) : calls[i].fn = "getQueueItems" /\ calls[i].id = q.id
FetchedQueues == SelectSeq(engine, LAMBDA q : ItemsAsked(q) /\ q.id \notin req.faults.items)
FetchedItems(q) == getQueueItems(q, 0, StatsItemsEnd)
FetchedWith(S) ==
  SumSeq([i \in 1..Len(FetchedQueues) |-> NumWithStatus(FetchedItems(FetchedQueues[i]), S)])

\* C1: every fetched item counts as active exactly when pending or
\* processing, as failed exactly when failed or timed_out, and in neither
\* bucket otherwise; one queue with one item of each of the six statuses
\* gives active = 2 and failed = 2.
C1_Classification ==
  StatsAnswered =>
    /\ resp.system.activeJobs = FetchedWith(ActiveStatuses)
    /\ resp.system.failedJobs = FetchedWith(FailedStatuses)
    /\ resp.system.activeJobs + resp.system.failedJobs
         + FetchedWith(Statuses \ (ActiveStatuses \cup FailedStatuses))
         = FetchedWith(Statuses)
    /\ (engine = <<QueueOf("Q1", SixStatusItems)>> /\ req.faults = NoFaults
          => resp.system.activeJobs = 2 /\ resp.system.failedJobs = 2)

C1_Witness ==
  /\ StatsAnswered
  /\ engine = <<QueueOf("Q1", SixStatusItems)>>
  /\ req.faults = NoFaults
  /\ resp.system.activeJobs = 2
  /\ resp.system.failedJobs = 2
  /\ resp.system.totalJobs = 6

\* the queues none of whose calls rejected
Faulted(q) == q.id \in req.faults.stats \cup req.faults.items
CleanQueues == SelectSeq(engine, LAMBDA q : ~Faulted(q))

\* C2: a queue one of whose calls (getQueueStats or getQueueItems) failed
\* contributes zero to totalJobs, activeJobs and failedJobs, and the other
\* queues contribute as without the failure.
C2_FailedQueueContributesZero ==
  StatsAnswered =>
    /\ resp.system.totalJobs
         = SumSeq([i \in 1..Len(CleanQueues) |-> CleanQueues[i].itemCount])
    /\ resp.system.activeJobs
         = SumSeq([i \in 1..Len(CleanQueues) |->
                     NumWithStatus(FetchedItems(CleanQueues[i]), ActiveStatuses)])
    /\ resp.system.failedJobs
         = SumSeq([i \in 1..Len(CleanQueues) |->
                     NumWithStatus(FetchedItems(CleanQueues[i]), FailedStatuses)])

StatsAsked == req.route = "GET /api/system/stats" /\ qm = "present" /\ ~Idle

\* C3 as claimed: with the engine present the aggregation fails only if
\* getAllQueues fails.
C3_FailsOnlyIfListingFails ==
  StatsAsked /\ ~req.faults.list => resp.status = 200

\* C3 as amended: with the engine present the aggregation fails exactly when
\* the engine's getSystemStats call or its getAllQueues call fails, whatever
\* the per-queue calls do.
C3_FailsOnlyIfSysOrListingFails ==
  StatsAsked => (resp.status = 200 <=> ~req.faults.sys /\ ~req.faults.list)

C3_Witness ==
  /\ StatsAsked
  /\ Len(engine) = 2
  /\ req.faults = [NoFaults EXCEPT !.stats = {"Q1"}, !.items = {"Q2"}]
  /\ resp.status = 200
  /\ resp.system.totalQueues = 2

FirstItems(q, n) == SubSeq(q.items, 1, IF Len(q.items) < n THEN Len(q.items) ELSE n)
CappedWith(S) ==
  SumSeq([i \in 1..Len(FetchedQueues) |->
            NumWithStatus(FirstItems(FetchedQueues[i], SpecItemCap), S)])

\* C4: activeJobs and failedJobs are the classification of at most the first
\* 1000 items of each listed queue, and no call asks the engine for more than
\* 1000 items of one queue.
C4_AtMostThousandItems ==
  StatsAnswered =>
    /\ \A i \in 1..Len(calls) :
         calls[i].fn = "getQueueItems" => calls[i].end - calls[i].start + 1 <= SpecItemCap
    /\ resp.system.activeJobs = CappedWith(ActiveStatuses)
    /\ resp.system.failedJobs = CappedWith(FailedStatuses)

(***************************************************************************)
(* Properties of the relay and of the connected-client set                 *)
(***************************************************************************)
\* C6: when the relay receives one of the eight engine events it broadcasts
\* an event of the same name with the same payload to every client connected
\* at that moment, and to no client that is not connected then.
C6_RelayBroadcast ==
  [][rt'.emitted # rt.emitted =>
       LET e == Last(rt'.emitted)
       IN  /\ e.name \in EventNames
           /\ \A c \in Clients :
                rt'.inbox[c] = IF rt.sock[c] = "open"
                               THEN Append(rt.inbox[c], e)
                               ELSE rt.inbox[c]]_vars

Ack == Msg("connected", NoData, Snapshot(0, 0, 0, 0, 0))

C6_Witness ==
  /\ rt.sock[1] = "closed"
  /\ rt.sock[2] = "open"
  /\ Len(rt.emitted) = 2
  /\ rt.emitted[1].name = "queueCreated"
  /\ rt.emitted[2].name = "jobCancelled"
  /\ rt.inbox[1] = <<Ack, rt.emitted[1]>>
  /\ rt.inbox[2] = <<Ack, rt.emitted[1], rt.emitted[2]>>

\* C7: two runs that differ only in the subscribeQueue / unsubscribeQueue
\* messages of their clients deliver the same sequence of relayed events to
\* every client.
C7_SubscriptionsDoNotFilter ==
  \A c \in Clients : rt.inbox[c] = rt2.inbox[c]

C7_Witness ==
  /\ rt.rooms[1] = {"Q1"}
  /\ rt2.rooms[1] = {}
  /\ rt.rooms[2] = {}
  /\ rt2.rooms[2] = {"Q1"}
  /\ Len(rt.emitted) = 2
  /\ rt.emitted[1].data.queueId = "Q1"
  /\ rt.emitted[2].data.queueId = "Q2"
  /\ rt.inbox[1] = <<Ack, rt.emitted[1], rt.emitted[2]>>
  /\ rt.inbox[2] = <<Ack, rt.emitted[2]>>

Count(r) == Cardinality(r.connectedClients)

\* C8: with the connection handler registered, the connected-client count is
\* the number of sessions that connected and have not disconnected: a connect
\* adds one, the disconnect of that session takes one off, and subscribeQueue,
\* unsubscribeQueue and getStats messages leave it as it is.
C8_ClientCount ==
  /\ [](HandlersOn(server, websocket) => Count(rt) = Cardinality(Open(rt)))
  /\ [][HandlersOn(server, websocket) =>
          /\ (\E c \in Clients : rt.sock[c] = "new" /\ rt'.sock[c] = "open")
               => Count(rt') = Count(rt) + 1
          /\ (\E c \in Clients : rt.sock[c] = "open" /\ rt'.sock[c] = "closed")
               => Count(rt') = Count(rt) - 1
          /\ rt'.sock = rt.sock => Count(rt') = Count(rt)]_vars

\* session 1 connected, subscribed to Q1, asked for the stats and left
C8_Witness ==
  /\ HandlersOn(server, websocket)
  /\ rt.sock[1] = "closed"
  /\ Answered(rt, 1)
  /\ rt.sock[2] = "open"
  /\ "Q1" \in rt.rooms[2]
  /\ Count(rt) = 1

(***************************************************************************)
(* Properties of the merge with the engine's own stats                     *)
(***************************************************************************)
LocalNames == {"totalJobs", "activeJobs", "failedJobs", "totalQueues", "connectedClients"}

\* the totals of the engine's queues when the calls in `faults` fail
TotalOf(faults) ==
  LET counted == SelectSeq(engine, LAMBDA q : q.id \notin faults.stats)
  IN  SumSeq([i \in 1..Len(counted) |-> counted[i].itemCount])

BucketOf(faults, S) ==
  LET fetched == SelectSeq(engine, LAMBDA q : q.id \notin faults.stats \cup faults.items)
  IN  SumSeq([i \in 1..Len(fetched) |-> NumWithStatus(FetchedItems(fetched[i]), S)])

\* m is the snapshot of an aggregation under `faults` with n clients connected
MergedAsClaimed(m, faults, n) ==
  /\ m.top = systemStats.top
  /\ DOMAIN m.system = LocalNames \cup DOMAIN systemStats.system
  /\ \A k \in DOMAIN systemStats.system \ LocalNames : m.system[k] = systemStats.system[k]
  /\ m.system.totalJobs = TotalOf(faults)
  /\ m.system.activeJobs = BucketOf(faults, ActiveStatuses)
  /\ m.system.failedJobs = BucketOf(faults, FailedStatuses)
  /\ m.system.totalQueues = Len(engine)
  /\ m.system.connectedClients = n

\* C13: in the snapshot the aggregation returns (to GET /api/system/stats of
\* the dashboard, and in a statsUpdate message of either server) totalJobs,
\* activeJobs, failedJobs, totalQueues and connectedClients carry the values
\* computed here even when the engine's getSystemStats result has fields of
\* those names, and every other field the engine reports is passed through
\* unchanged.
C13_LocalTotalsTakePrecedence ==
  [][/\ (Idle /\ resp'.kind = "snapshot" /\ server = "dashboard" /\ qm = "present")
          => MergedAsClaimed(resp'.stats, req'.faults, Count(rt))
     /\ \A c \in Clients :
          (/\ qm = "present"
           /\ Len(rt'.inbox[c]) = Len(rt.inbox[c]) + 1
           /\ Last(rt'.inbox[c]).name = "statsUpdate")
            => MergedAsClaimed(Last(rt'.inbox[c]).stats, NoFaults, Count(rt))]_vars

\* the engine reports totals of its own; one client is connected
C13_Witness ==
  /\ server = "dashboard"
  /\ qm = "present"
  /\ resp.kind = "snapshot"
  /\ req.faults = NoFaults
  /\ systemStats.top = [uptime |-> 7, totalJobs |-> 99]
  /\ resp.stats.top = [uptime |-> 7, totalJobs |-> 99]
  /\ resp.stats.system.memory = 5
  /\ resp.stats.system.totalJobs = 6
  /\ resp.stats.system.activeJobs = 2
  /\ resp.stats.system.failedJobs = 2
  /\ resp.stats.system.totalQueues = 2
  /\ resp.stats.system.connectedClients = 1
  /\ \E c \in Clients : Answered(rt, c) /\ Last(rt.inbox[c]).stats = resp.stats

(***************************************************************************)
(* Properties of the getStats message and of the websocket flag            *)
(***************************************************************************)
\* the statsUpdate messages delivered so far
StatsUpdates ==
  UNION {{rt.inbox[c][i] : i \in {k \in 1..Len(rt.inbox[c]) :
                                    rt.inbox[c][k].name = "statsUpdate"}} : c \in Clients}

FreshSnapshot(n) ==
  IF qm = "null" THEN Snapshot(0, 0, 0, 0, n)
  ELSE Snapshot(Len(engine), TotalOf(NoFaults), BucketOf(NoFaults, ActiveStatuses),
                BucketOf(NoFaults, FailedStatuses), n)

\* m answers a getStats message sent when n clients were connected
IsStatsAnswer(m, n) ==
  \/ m.name = "error"
  \/ m.name = "statsUpdate" /\ m.system = FreshSnapshot(n)

NumAnswers(c) ==
  Cardinality({i \in 1..Len(rt.inbox[c]) : rt.inbox[c][i].name \in {"statsUpdate", "error"}})

NumAcks(c) ==
  Cardinality({i \in 1..Len(rt.inbox[c]) : rt.inbox[c][i].name = "connected"})

\* C18: with the connection handler registered, a connecting client is sent
\* the `connected` acknowledgment first of all; each getStats message of a
\* connected client is answered by exactly one message, to that client and to
\* no other: statsUpdate with the snapshot as of that moment, or error.
C18_PerConnectionProtocol ==
  /\ [](HandlersOn(server, websocket) =>
          \A c \in Clients :
            /\ rt.sock[c] # "new" => rt.inbox[c] # <<>> /\ rt.inbox[c][1] = Ack
            /\ NumAcks(c) = IF rt.sock[c] = "new" THEN 0 ELSE 1
            /\ NumAnswers(c) = rt.asked[c])
  /\ [][HandlersOn(server, websocket) =>
          \A c \in Clients :
            rt'.asked[c] # rt.asked[c] =>
              /\ Len(rt'.inbox[c]) = Len(rt.inbox[c]) + 1
              /\ SubSeq(rt'.inbox[c], 1, Len(rt.inbox[c])) = rt.inbox[c]
              /\ IsStatsAnswer(Last(rt'.inbox[c]), Count(rt))
              /\ \A d \in Clients \ {c} : rt'.inbox[d] = rt.inbox[d]]_vars

\* session 1 was answered a snapshot, session 2 an error
C18_Witness ==
  /\ HandlersOn(server, websocket)
  /\ Open(rt) = {1, 2}
  /\ Len(rt.inbox[1]) = 2 /\ Len(rt.inbox[2]) = 2
  /\ rt.inbox[1][2].name = "statsUpdate"
  /\ rt.inbox[2][2].name = "error"

\* C19: a dashboard created with features.websocket false wires up nothing:
\* no engine event reaches a client, no connection, getStats or subscribe
\* handler runs, no client is sent `connected` or anything else, and the
\* connected-client count is 0 in every reachable state.
C19_WebsocketOff ==
  server = "dashboard" /\ ~websocket =>
    /\ ~relayWired
    /\ rt.emitted = <<>>
    /\ rt.connectedClients = {}
    /\ \A c \in Clients : rt.inbox[c] = <<>> /\ rt.rooms[c] = {}

\* the engine emitted, a session connected and sent getStats: nothing came
C19_Witness ==
  /\ server = "dashboard" /\ ~websocket
  /\ qm = "present"
  /\ rt.unheard = MaxEvents
  /\ rt.sock[1] = "open" /\ rt.asked[1] = 1
  /\ rt.sock[2] = "closed"
  /\ rt.inbox[1] = <<>>

(***************************************************************************)
(* Properties of the HTTP routes                                           *)
(***************************************************************************)
ReadRoutes ==
  {"GET /api/health", "GET /api/system/stats", "GET /api/queues", "GET /api/jobs",
   "GET /api/activity/recent"}

\* the documented answer of a read route when the engine is unavailable
DegradedShape ==
  CASE req.route = "GET /api/health" -> resp.kind = "demo"
    [] req.route = "GET /api/system/stats" ->
         /\ resp.kind = "snapshot"
         /\ resp.system = Snapshot(0, 0, 0, 0, Cardinality(rt.connectedClients))
    [] req.route = "GET /api/queues" ->
         resp.kind = "queues" /\ resp.list = <<>> /\ resp.total = 0
    [] OTHER -> resp.kind = "list" /\ resp.list = <<>>

\* C5: with the engine handle absent every engine-backed read route answers
\* its degraded shape and never an error, every pass-through mutation route
\* (create, delete, pause, resume, add job, cancel job) answers 503, and no
\* engine call is attempted.
C5_DegradedWhenEngineAbsent ==
  qm = "null" /\ ~Idle =>
    /\ calls = <<>>
    /\ req.route \in ReadRoutes => resp.status = 200 /\ DegradedShape
    /\ req.route \in PathRoutes => resp.status = 503
    /\ req.route = "POST /api/queues" /\ ValidationErrors(req.body) = {}
         => resp.status = 503

\* the creation times of all jobs of all listed queues
AllTimes == UNION {{engine[i].items[k].addedAt : k \in 1..Len(engine[i].items)} :
                     i \in 1..Len(engine)}

Min(a, b) == IF a < b THEN a ELSE b

\* C9: GET /api/jobs with limit L returns exactly the min(L, total) jobs
\* created last among all jobs of all listed queues, newest first, whatever
\* order each queue's items are enumerated in (here: when no engine call
\* fails and creation times are distinct).
C9_LatestJobsOverall ==
  req.route = "GET /api/jobs" /\ qm = "present" /\ resp.status = 200
    /\ req.faults = NoFaults =>
    LET got == [i \in 1..Len(resp.list) |-> resp.list[i].addedAt]
    IN  /\ Len(got) = Min(LimitOf(req.limit), Cardinality(AllTimes))
        /\ \A i, j \in 1..Len(got) : i < j => got[i] > got[j]
        /\ \A t \in AllTimes \ Range(got) : \A i \in 1..Len(got) : got[i] > t

\* C10: POST /api/queues with an empty or missing name or queueId answers
\* 400 with a validation error naming the field and makes no engine call, on
\* every server that has the route, the engine available or not.
C10_CreateValidated ==
  req.route = "POST /api/queues" /\ ~Idle /\ ValidationErrors(req.body) # {} =>
    /\ resp.status = 400
    /\ resp.kind = "validation"
    /\ resp.fields = ValidationErrors(req.body)
    /\ calls = <<>>

(***************************************************************************)
(* Properties of GET /api/activity/recent                                  *)
(***************************************************************************)
ActivityAsked ==
  req.route = "GET /api/activity/recent" /\ qm = "present" /\ ~Idle

\* the listed queues whose getQueueItems call did not fail
Unfailed == SelectSeq(engine, LAMBDA q : q.id \notin req.faults.items)

\* an activity entry, known by its queue and its job
EntryKey(e) == <<e.queueId, e.timestamp>>
ItemKeys(q, items) == {<<q.id, items[k].addedAt>> : k \in 1..Len(items)}

\* the items the handler fetched from the queues that answered
FetchedKeys ==
  UNION {ItemKeys(Unfailed[i], getQueueItems(Unfailed[i], 0, ActivityItemsEnd)) :
           i \in 1..Len(Unfailed)}

ListKeys == {EntryKey(resp.list[i]) : i \in 1..Len(resp.list)}

SortedByTimestamp ==
  \A i, j \in 1..Len(resp.list) : i < j => resp.list[i].timestamp >= resp.list[j].timestamp

\* C11: when the item fetch of some listed queues fails, GET
\* /api/activity/recent still answers 200 with the activity of the queues
\* whose fetch succeeded (the newest `limit` of their fetched items), sorted
\* by timestamp descending, and nothing of the failure shows in the answer.
C11_ActivitySkipsFailedQueues ==
  ActivityAsked /\ ~req.faults.list =>
    /\ resp.status = 200
    /\ resp.kind = "list"
    /\ SortedByTimestamp
    /\ ListKeys \subseteq FetchedKeys
    /\ Cardinality(ListKeys) = Len(resp.list)
    /\ Len(resp.list) = Min(ActivityLimitOf(req.limit), Cardinality(FetchedKeys))
    /\ \A k \in FetchedKeys \ ListKeys : \A i \in 1..Len(resp.list) :
         resp.list[i].timestamp >= k[2]

\* of three queues that hold a job each, the fetch of Q2 failed
C11_Witness ==
  /\ ActivityAsked
  /\ Len(engine) = 3
  /\ \A i \in 1..3 : engine[i].items # <<>>
  /\ req.faults.items = {"Q2"}
  /\ resp.status = 200
  /\ Len(resp.list) = 2
  /\ {resp.list[i].queueId : i \in 1..2} = {"Q1", "Q3"}

\* the entry is the projection of an item of the queue it names
IsProjection(e) ==
  \E i \in 1..Len(engine) : \E k \in 1..Len(engine[i].items) :
    LET q == engine[i]
        job == q.items[k]
    IN  /\ e.type = "Job"
        /\ e.description = <<"Job", job.id, "in", q.name>>
        /\ e.status = job.status
        /\ e.timestamp = job.addedAt
        /\ e.queueId = q.id

\* C12: GET /api/activity/recent asks for and uses at most 10 items of each
\* queue, so with N listed queues the answer holds at most min(L, 10 * N)
\* entries; they are sorted by timestamp descending and each is the
\* projection {type, description, status, timestamp, queueId} of one item.
C12_AtMostTenPerQueue ==
  ActivityAsked /\ resp.status = 200 =>
    /\ \A i \in 1..Len(calls) :
         calls[i].fn = "getQueueItems"
           => calls[i].end - calls[i].start + 1 <= ActivityItemCap
    /\ \A i \in 1..Len(engine) :
         Cardinality({k \in 1..Len(resp.list) : resp.list[k].queueId = engine[i].id})
           <= ActivityItemCap
    /\ Len(resp.list) <= Min(ActivityLimitOf(req.limit), ActivityItemCap * Len(engine))
    /\ SortedByTimestamp
    /\ \A k \in 1..Len(resp.list) : IsProjection(resp.list[k])

(***************************************************************************)
(* Properties of startup and shutdown                                      *)
(***************************************************************************)
\* the listener has been bound
Bound == phase \in {"listening", "closing", "closed"}

\* C14: start() of a dashboard constructs the engine client before the
\* listener is bound; if the construction fails the process does not exit and
\* start() does not reject, the engine handle stays absent (demo mode) and the
\* listener is bound all the same; start() resolves only once the listener is
\* bound.
C14_Startup ==
  /\ [](server = "dashboard" =>
          /\ Bound => lifecycle.init # "none"
          /\ lifecycle.init = "failed" =>
               phase # "exited" /\ lifecycle.start # "rejected" /\ qm = "null"
          /\ lifecycle.start = "resolved" => Bound)
  /\ (server = "dashboard" /\ lifecycle.init = "failed") ~> Bound

C14_Witness ==
  /\ server = "dashboard"
  /\ lifecycle.init = "failed"
  /\ qm = "null"
  /\ phase = "listening"
  /\ lifecycle.start = "resolved"

\* C15: stop() first makes the listener refuse new connections, closes the
\* engine client only after the listener has closed and only if there is one,
\* and resolves only after that close has completed, or right after the
\* listener closed when there is no engine client.
C15_Shutdown ==
  /\ [](/\ lifecycle.stop # "none" => phase \in {"closing", "closed"}
        /\ lifecycle.close # "none" => phase = "closed" /\ qm = "present"
        /\ lifecycle.stop = "resolved" =>
             /\ phase = "closed"
             /\ lifecycle.close = IF qm = "present" THEN "closed" ELSE "none")
  /\ [][lifecycle.stop # "none" =>
          \A c \in Clients : rt.sock[c] = "new" => rt'.sock[c] = "new"]_vars

\* stopped with a session that had connected and left, the engine client closed
C15_Witness ==
  /\ lifecycle.stop = "resolved"
  /\ qm = "present"
  /\ lifecycle.close = "closed"
  /\ phase = "closed"
  /\ rt.sock[1] = "closed"

(***************************************************************************)
(* Properties of GET /api/queues/:queueId/jobs                             *)
(***************************************************************************)
\* the numbers the query spells: limit L (default 100), offset O (default 0)
AskedLimit == IF req.limit = Undefined THEN DefaultLimit ELSE parseInt(req.limit)
AskedOffset == IF req.offset = Undefined THEN 0 ELSE parseInt(req.offset)

\* C16: GET /api/queues/:queueId/jobs with limit L and offset O from the
\* query string asks the engine for the indices O .. O+L-1 of that queue, a
\* slice of at most L items that starts at item O, for every O >= 0 and L > 0.
C16_QueueJobsRange ==
  /\ req.route = "GET /api/queues/:queueId/jobs"
  /\ server = "legacy"
  /\ qm = "present"
  /\ ~Idle
  /\ AskedLimit > 0
  => /\ calls = <<Call("getQueueItems", req.queueId, AskedOffset,
                       AskedOffset + AskedLimit - 1)>>
     /\ resp.status = 200 =>
          /\ Len(resp.list) <= AskedLimit
          /\ resp.list = getQueueItems(QueueById(engine, req.queueId), AskedOffset,
                                       AskedOffset + AskedLimit - 1)

(***************************************************************************)
(* Properties of the pass-through mutation routes                          *)
(***************************************************************************)
\* the server has a handler for the route
RouteDefined ==
  server = "legacy" \/ req.route = "DELETE /api/queues/:queueId"

\* the one engine call the request stands for
MatchingCall ==
  LET plain(fn) == [fn |-> fn, id |-> req.queueId, start |-> 0, end |-> 0, arg |-> "",
                    jobIds |-> <<>>, priority |-> -1, pauseScheduledJobs |-> FALSE]
  IN  CASE req.route = "DELETE /api/queues/:queueId" -> plain("deleteQueue")
        [] req.route = "POST /api/queues/:queueId/pause" ->
             [plain("pauseQueue") EXCEPT !.arg = "Dashboard pause",
                                         !.pauseScheduledJobs = TRUE]
        [] req.route = "POST /api/queues/:queueId/resume" -> plain("resumeQueue")
        [] req.route = "POST /api/queues/:queueId/jobs" ->
             [plain("addToQueue") EXCEPT
                !.arg = req.data,
                !.priority = IF req.priority = NoField THEN 0 ELSE req.priority]
        [] OTHER -> [plain("cancelJobs") EXCEPT !.jobIds = <<req.jobId>>]

StatsFns == {"getSystemStats", "getAllQueues", "getQueueStats", "getQueueItems"}

NumCalls(fn, qid) ==
  Cardinality({i \in 1..Len(calls) : calls[i].fn = fn /\ calls[i].id = qid})

PerQueueCalls ==
  Cardinality({i \in 1..Len(calls) : calls[i].fn \in {"getQueueStats", "getQueueItems"}})

\* C22: one computation of the stats over the N listed queues issues exactly
\* one getAllQueues call and the one getSystemStats call, at most one
\* getQueueStats and one getQueueItems call per queue (at most 2*N in all),
\* no other engine call, so none that mutates; the step that computes the
\* stats, for a request or for a getStats message, leaves the engine's
\* queues and the connected-client set as they were
C22_StatsReadOnly ==
  /\ [](StatsAnswered =>
         /\ NumCalls("getAllQueues", "") = 1
         /\ NumCalls("getSystemStats", "") = 1
         /\ PerQueueCalls <= 2 * Len(engine)
         /\ Len(calls) = 2 + PerQueueCalls
         /\ \A i \in 1..Len(engine) :
              /\ NumCalls("getQueueStats", engine[i].id) <= 1
              /\ NumCalls("getQueueItems", engine[i].id) <= 1
         /\ \A i \in 1..Len(calls) : calls[i].fn \in StatsFns)
  /\ [][(req'.route = "GET /api/system/stats" /\ resp' # resp) \/ rt'.asked # rt.asked =>
         /\ engine' = engine
         /\ rt'.connectedClients = rt.connectedClients
         /\ rt'.sock = rt.sock]_vars

\* two sessions connected, two queues listed, one item fetch rejected: six
\* calls, and the two sessions still counted
C22_Witness ==
  /\ StatsAnswered
  /\ Len(engine) = 2
  /\ req.faults.items = {"Q1"}
  /\ req.faults.stats = {}
  /\ Len(calls) = 6
  /\ rt.connectedClients = {1, 2}
  /\ resp.system.connectedClients = 2

\* C23: once stop() was called and the listener has finished closing, the
\* promise stop() returned eventually settles, also when the engine client's
\* close() rejects
C23_StopSettles ==
  (lifecycle.stop = "pending" /\ phase = "closed") ~> (lifecycle.stop # "pending")

\* C24: with an engine whose itemCount is the number of items of the queue,
\* every snapshot has activeJobs + failedJobs <= totalJobs, whichever calls
\* failed and however long the queues are
C24_BucketsWithinTotal ==
  StatsAnswered =>
    /\ \A i \in 1..Len(engine) : engine[i].itemCount = Len(engine[i].items)
    /\ resp.system.activeJobs + resp.system.failedJobs <= resp.system.totalJobs

\* a queue longer than one fetch, all failed, next to a queue whose item
\* fetch rejected
C24_Witness ==
  /\ StatsAnswered
  /\ Len(engine) = 2
  /\ engine[1].items = RunItems(SpecItemCap + 2, "failed")
  /\ engine[2].itemCount = 1
  /\ req.faults.items = {"Q2"}
  /\ req.faults.stats = {}
  /\ resp.system.failedJobs = StatsItemsEnd + 1
  /\ resp.system.activeJobs = 0
  /\ resp.system.totalJobs = SpecItemCap + 3

\* C25: with connects and disconnects between the engine calls of a running
\* aggregation, the snapshot's connectedClients is the size of the client
\* set in the step that assembles it, after the last engine call; the set
\* stays the set of the open sessions, and the aggregation fails only if
\* its getSystemStats or getAllQueues call fails
C25_ClientsReadAtAssembly ==
  /\ [](rt.connectedClients = {c \in Clients : rt.sock[c] = "open"})
  /\ [][req'.route = "GET /api/system/stats" /\ Idle /\ resp'.status # 0 =>
         /\ rt' = rt
         /\ (resp'.status = 200) = ~(qm = "present" /\ (req'.faults.sys \/ req'.faults.list))
         /\ (resp'.status = 200 =>
               resp'.system.connectedClients = Cardinality(rt.connectedClients))
         /\ calls' = getSystemStats(server, qm, engine, systemStats, req'.faults, 0).calls]_vars

\* no session when the request arrived, two when the snapshot was assembled
C25_Witness ==
  /\ req.route = "GET /api/system/stats"
  /\ qm = "present"
  /\ resp.status = 200
  /\ req.clientsAtArrival = 0
  /\ Len(calls) = 6
  /\ rt.connectedClients = {1, 2}
  /\ resp.system.connectedClients = 2

====
